---- MODULE Spec2Model ----
(***************************************************************************)
(* Thread attachment, guard release, the exception bridge and the scoped   *)
(* and durable object references of duchess.                               *)
(*                                                                         *)
(* Each OS thread owns a thread-local state cell (thread.rs), the runtime  *)
(* keeps its own record of which threads are attached (AttachCurrentThread *)
(* / DetachCurrentThread, raw.rs) and every environment handle carries a   *)
(* pending-exception signal (error.rs).  Operations are synchronous and    *)
(* run on the calling thread; threads interleave at operation boundaries.  *)
(* References (ref_.rs, jvm.rs) are values holding the address of a slot   *)
(* of the runtime; the runtime keeps local slots per environment and       *)
(* global slots, and Jvm::with (jvm.rs) brackets the use of scoped ones.   *)
(***************************************************************************)
EXTENDS Bags, Integers, Sequences, FiniteSets, TLC

\* ---------------------------------------------------------------- bounds
NumThreads == 2
NumObjects == 2
\* the local reference slots, and the global reference slots, of the runtime
MaxRefs == 1

\* the longest str converted, in chars
MaxLen == 2

\* the null address (std::ptr::null_mut)
NULL == 0

Threads == 1..NumThreads
\* non-null object handles the runtime can hand out
Objects == 1..NumObjects
\* the handles (addresses of reference slots) the runtime can hand out: the
\* local slots and the global slots are separate storage
LocalHandles == 1..MaxRefs
GlobalHandles == {MaxRefs + h : h \in 1..MaxRefs}
Handles == LocalHandles \cup GlobalHandles
\* the environment handle the runtime gives thread t (non-null, per thread)
EnvOf(t) == NumThreads + t
\* the process-wide runtime handle (non-null, distinct from the environments)
GLOBAL_JVM == EnvOf(NumThreads) + 1

VARIABLES
    state,        \* thread.rs STATE: thread-local Cell<State>, one per thread
    guards,       \* live AttachGuard values owned by each thread
    jvmAttached,  \* runtime side: is the thread registered with the runtime
    external,     \* the thread was attached by an actor outside this library
    pending,      \* pending-exception signal of each thread's environment
    permOk,       \* history: attach_permanently has returned Ok on the thread
    nested,       \* history: an attach on the thread has failed with NestedUsage
    scope,        \* the attachment guard of the thread's running Jvm::with
    refs,         \* runtime side: the reference slot behind each handle
    held,         \* the bag of Local / Global values the program owns
    lineage,      \* history: the object each live slot's reference descends from
    jvmCell,      \* jvm.rs GLOBAL_JVM: the Lazy<JavaVM> cell and who has read it
    jstring,      \* runtime side: the string object made last and its UTF-16 units
    last          \* the most recent operation: its inputs, calls and result

vars == <<state, guards, jvmAttached, external, pending, permOk, nested,
          scope, refs, held, lineage, jvmCell,
          jstring, last>>

\* ------------------------------------------------------- thread.rs State
Detached == [tag |-> "Detached", env |-> NULL]
InUse == [tag |-> "InUse", env |-> NULL]
Attached(env) == [tag |-> "Attached", env |-> env]

\* AttachGuard { jvm, env, permanent }; jvm is the one process-wide handle.
\* origin is a ghost field: the State value the attach replaced
AttachGuard(env, permanent, origin) ==
    [env |-> env, permanent |-> permanent, origin |-> origin]

\* a scoped reference: Local { env, obj }
Local_from_raw(env, obj) == [env |-> env, obj |-> obj]
NoRef == [env |-> NULL, obj |-> NULL]

\* ---------------------------------------------------------------- raw.rs
\* JvmPtr::attach_thread: AttachCurrentThread returns JNI_OK with the
\* thread's environment, or an error code mapped to Error::JvmInternal
attach_thread(t, ok) ==
    IF ok THEN [kind |-> "Ok", env |-> EnvOf(t)]
          ELSE [kind |-> "JvmInternal", env |-> NULL]

\* JvmPtr::detach_thread: DetachCurrentThread returns JNI_OK or an error code
detach_thread(ok) ==
    IF ok THEN [kind |-> "Ok"] ELSE [kind |-> "JvmInternal"]

\* a wrapper that takes any address
ObjectPtr_new_Unchecked(ptr) == <<ptr>>

\* ObjectPtr::new: NonNull::new(ptr).map(Self); the Option is a sequence of
\* length 0 or 1
ObjectPtr_new(ptr) == IF ptr = NULL THEN <<>> ELSE <<ptr>>

\* JvmPtr::new: NonNull::new(ptr).map(Self)
JvmPtr_new(ptr) == IF ptr = NULL THEN <<>> ELSE <<ptr>>

\* EnvPtr::new: NonNull::new(ptr)? and then Some(Self { ptr, .. })
EnvPtr_new(ptr) == IF ptr = NULL THEN <<>> ELSE <<ptr>>

\* MethodPtr::new: NonNull::new(ptr).map(Self)
MethodPtr_new(ptr) == IF ptr = NULL THEN <<>> ELSE <<ptr>>

\* ------------------------------------------------------------- thread.rs
\* the closure passed by attach / attach_permanently: runs attach_thread and
\* builds the guard; `?` returns the error of a failed attach
attach_closure(t, permanent, ok) ==
    LET r == attach_thread(t, ok) IN
    IF r.kind = "Ok"
    THEN [kind |-> "Ok", guard |-> <<AttachGuard(r.env, permanent, Detached)>>]
    ELSE [kind |-> r.kind, guard |-> <<>>]

\* attached_or with a rollback missing (state left InUse when f fails)
attached_or_NoRollback(cur, fr) ==
    CASE cur.tag = "Attached" ->
            [st |-> InUse, kind |-> "Ok",
             guard |-> <<AttachGuard(cur.env, TRUE, cur)>>, called |-> FALSE]
      [] cur.tag = "InUse" ->
            [st |-> InUse, kind |-> "NestedUsage", guard |-> <<>>,
             called |-> FALSE]
      [] cur.tag = "Detached" ->
            [st |-> InUse, kind |-> fr.kind, guard |-> fr.guard,
             called |-> TRUE]

\* attached_or that runs the closure when the state is InUse as well
attached_or_NestedAttaches(cur, fr) ==
    CASE cur.tag = "Attached" ->
            [st |-> InUse, kind |-> "Ok",
             guard |-> <<AttachGuard(cur.env, TRUE, cur)>>, called |-> FALSE]
      [] cur.tag \in {"InUse", "Detached"} ->
            [st |-> IF fr.kind # "Ok" THEN cur ELSE InUse,
             kind |-> fr.kind, guard |-> fr.guard, called |-> TRUE]

\* attached_or that re-attaches when the state is Attached
attached_or_Reattach(cur, fr) ==
    CASE cur.tag = "InUse" ->
            [st |-> InUse, kind |-> "NestedUsage", guard |-> <<>>,
             called |-> FALSE]
      [] cur.tag \in {"Attached", "Detached"} ->
            [st |-> IF fr.kind # "Ok" THEN cur ELSE InUse,
             kind |-> fr.kind, guard |-> fr.guard, called |-> TRUE]

\* attached_or that reads the state of an attached thread without replacing
\* it
attached_or_NoReplace(cur, fr) ==
    CASE cur.tag = "Attached" ->
            [st |-> cur, kind |-> "Ok",
             guard |-> <<AttachGuard(cur.env, TRUE, cur)>>, called |-> FALSE]
      [] cur.tag = "InUse" ->
            [st |-> InUse, kind |-> "NestedUsage", guard |-> <<>>,
             called |-> FALSE]
      [] cur.tag = "Detached" ->
            [st |-> IF fr.kind # "Ok" THEN Detached ELSE InUse,
             kind |-> fr.kind, guard |-> fr.guard, called |-> TRUE]

\* attached_or(jvm, f): state.replace(InUse), then by the replaced value;
\* fr is what the closure f returns if it is run, called tells if it was
attached_or(cur, fr) ==
    CASE cur.tag = "Attached" ->
            [st |-> InUse, kind |-> "Ok",
             guard |-> <<AttachGuard(cur.env, TRUE, cur)>>, called |-> FALSE]
      [] cur.tag = "InUse" ->
            [st |-> InUse, kind |-> "NestedUsage", guard |-> <<>>,
             called |-> FALSE]
      [] cur.tag = "Detached" ->
            [st |-> IF fr.kind # "Ok" THEN Detached ELSE InUse,
             kind |-> fr.kind, guard |-> fr.guard, called |-> TRUE]

\* drop of a guard that detaches permanent guards too
AttachGuard_drop_AlwaysDetach(cur, g, ok) ==
    LET r == detach_thread(ok) IN
    [st |-> IF r.kind = "Ok" THEN Detached ELSE cur,
     detachCalled |-> TRUE, detached |-> r.kind = "Ok",
     assertOk |-> TRUE, printed |-> r.kind # "Ok", kind |-> "Unit"]

\* impl Drop for AttachGuard: fn drop(&mut self) returns ()
AttachGuard_drop(cur, g, ok) ==
    IF g.permanent
    THEN [st |-> Attached(g.env), detachCalled |-> FALSE,
          detached |-> FALSE, assertOk |-> cur.tag = "InUse",
          printed |-> FALSE, kind |-> "Unit"]
    ELSE LET r == detach_thread(ok) IN
         [st |-> IF r.kind = "Ok" THEN Detached ELSE cur,
          detachCalled |-> TRUE, detached |-> r.kind = "Ok",
          assertOk |-> TRUE, printed |-> r.kind # "Ok", kind |-> "Unit"]

\* -------------------------------------------------------------- error.rs
\* check_exception that wraps the thrown object but never clears the signal
check_exception_NoClear(env, pend) ==
    IF ObjectPtr_new(pend) # <<>>
    THEN [kind |-> "Thrown", ref |-> Local_from_raw(env, pend),
          pending |-> pend, calls |-> <<"ExceptionOccurred">>]
    ELSE [kind |-> "Ok", ref |-> NoRef, pending |-> pend,
          calls |-> <<"ExceptionOccurred">>]

\* check_exception that clears the signal before it looks at the reply
check_exception_AlwaysClear(env, pend) ==
    IF ObjectPtr_new(pend) # <<>>
    THEN [kind |-> "Thrown", ref |-> Local_from_raw(env, pend),
          pending |-> NULL,
          calls |-> <<"ExceptionOccurred", "ExceptionClear">>]
    ELSE [kind |-> "Ok", ref |-> NoRef, pending |-> NULL,
          calls |-> <<"ExceptionOccurred", "ExceptionClear">>]

\* check_exception(jvm): ExceptionOccurred returns the pending exception or
\* null; when non-null ExceptionClear is called and the object is wrapped
check_exception(env, pend) ==
    IF ObjectPtr_new(pend) # <<>>
    THEN [kind |-> "Thrown", ref |-> Local_from_raw(env, pend),
          pending |-> NULL,
          calls |-> <<"ExceptionOccurred", "ExceptionClear">>]
    ELSE [kind |-> "Ok", ref |-> NoRef, pending |-> pend,
          calls |-> <<"ExceptionOccurred">>]

\* --------------------------------------------------- the runtime's replies
\* what FindClass / GetMethodID / NewStringUTF can reply: a non-null handle
\* and no exception, null with an exception pending, or null without one
LookupReplies ==
    {[ret |-> o, exc |-> NULL] : o \in Objects}
        \cup {[ret |-> NULL, exc |-> e] : e \in Objects}
        \cup {[ret |-> NULL, exc |-> NULL]}

\* --------------------------------------------------------------- find.rs
\* find_class that reports a null reply without looking for an exception
find_class_NoCheck(env, rt) ==
    IF ObjectPtr_new(rt.ret) # <<>>
    THEN [kind |-> "Ok", ptr |-> NULL, pending |-> rt.exc,
          ref |-> Local_from_raw(env, rt.ret), calls |-> <<"FindClass">>]
    ELSE [kind |-> "JvmInternal", ptr |-> NULL, pending |-> rt.exc,
          ref |-> NoRef, calls |-> <<"FindClass">>]

\* find_class(jvm, jni_name): rt is the reply of the raw FindClass call
find_class(env, rt) ==
    IF ObjectPtr_new(rt.ret) # <<>>
    THEN [kind |-> "Ok", ptr |-> NULL, pending |-> rt.exc,
          ref |-> Local_from_raw(env, rt.ret), calls |-> <<"FindClass">>]
    ELSE LET c == check_exception(env, rt.exc) IN
         IF c.kind # "Ok"
         THEN [kind |-> c.kind, ptr |-> NULL, pending |-> c.pending,
               ref |-> c.ref, calls |-> <<"FindClass">> \o c.calls]
         ELSE [kind |-> "JvmInternal", ptr |-> NULL, pending |-> c.pending,
               ref |-> NoRef, calls |-> <<"FindClass">> \o c.calls]

\* find_method(jvm, class, jni_name, jni_descriptor): rt is the reply of the
\* raw GetMethodID call, which class, name and descriptor select; Ok
\* carries the MethodPtr
find_method(env, rt) ==
    IF MethodPtr_new(rt.ret) # <<>>
    THEN [kind |-> "Ok", ptr |-> rt.ret, pending |-> rt.exc,
          ref |-> NoRef, calls |-> <<"GetMethodID">>]
    ELSE LET c == check_exception(env, rt.exc) IN
         IF c.kind # "Ok"
         THEN [kind |-> c.kind, ptr |-> NULL, pending |-> c.pending,
               ref |-> c.ref, calls |-> <<"GetMethodID">> \o c.calls]
         ELSE [kind |-> "JvmInternal", ptr |-> NULL, pending |-> c.pending,
               ref |-> NoRef, calls |-> <<"GetMethodID">> \o c.calls]

\* ---------------------------------------------------------------- str.rs
\* <&str as IntoJava<JavaString>>::into_java: rt is the reply of the raw
\* NewStringUTF call
into_java(env, rt) ==
    IF ObjectPtr_new(rt.ret) # <<>>
    THEN [kind |-> "Ok", ptr |-> NULL, pending |-> rt.exc,
          ref |-> Local_from_raw(env, rt.ret), calls |-> <<"NewStringUTF">>]
    ELSE LET c == check_exception(env, rt.exc) IN
         IF c.kind # "Ok"
         THEN [kind |-> c.kind, ptr |-> NULL, pending |-> c.pending,
               ref |-> c.ref, calls |-> <<"NewStringUTF">> \o c.calls]
         ELSE [kind |-> "JvmInternal", ptr |-> NULL, pending |-> c.pending,
               ref |-> NoRef, calls |-> <<"NewStringUTF">> \o c.calls]

\* a Rust string is the sequence of its chars (Unicode scalar values); the
\* chars drawn: NUL, a, e-acute, the euro sign and the crab (outside the BMP)
Chars == {0, 97, 233, 8364, 129408}

\* the three-byte form of a 16 bit value
Enc3(u) == <<224 + (u \div 4096), 128 + ((u \div 64) % 64), 128 + (u % 64)>>

\* the UTF-8 bytes of a char, as a str holds them
Utf8(c) ==
    IF c < 128 THEN <<c>>
    ELSE IF c < 2048 THEN <<192 + (c \div 64), 128 + (c % 64)>>
    ELSE IF c < 65536 THEN Enc3(c)
    ELSE <<240 + (c \div 262144), 128 + ((c \div 4096) % 64),
           128 + ((c \div 64) % 64), 128 + (c % 64)>>

\* the UTF-16 units of a char: itself, or a surrogate pair
Utf16(c) ==
    IF c < 65536 THEN <<c>>
    ELSE <<55296 + ((c - 65536) \div 1024), 56320 + ((c - 65536) % 1024)>>

RECURSIVE to_java_cesu8_PlainUtf8(_)
\* an encoder that hands the runtime the UTF-8 bytes of the str as they are
to_java_cesu8_PlainUtf8(text) ==
    IF text = <<>> THEN <<>>
    ELSE Utf8(Head(text)) \o to_java_cesu8_PlainUtf8(Tail(text))

RECURSIVE to_java_cesu8(_)
\* cesu8::to_java_cesu8: NUL becomes C0 80, a char outside the BMP becomes
\* its two surrogates in three bytes each, any other char keeps its UTF-8
to_java_cesu8(text) ==
    IF text = <<>> THEN <<>>
    ELSE LET c == Head(text)
             b == IF c = 0 THEN <<192, 128>>
                  ELSE IF c < 65536 THEN Utf8(c)
                  ELSE Enc3(Utf16(c)[1]) \o Enc3(Utf16(c)[2]) IN
         b \o to_java_cesu8(Tail(text))

\* CString::from_vec_unchecked(encoded): the bytes and the terminating NUL
CString(bytes) == bytes \o <<0>>

RECURSIVE UntilNul(_)
\* what the runtime reads through a char pointer: the bytes before the
\* first NUL
UntilNul(bytes) ==
    IF bytes = <<>> \/ Head(bytes) = 0 THEN <<>>
    ELSE <<Head(bytes)>> \o UntilNul(Tail(bytes))

RECURSIVE DecodeModified(_)
\* the runtime decodes modified UTF-8 into UTF-16 units, by the lead byte
DecodeModified(bytes) ==
    IF bytes = <<>> THEN <<>>
    ELSE LET b == Head(bytes) IN
         IF b < 128 \/ Len(bytes) < 2
         THEN <<b>> \o DecodeModified(Tail(bytes))
         ELSE IF b < 224 \/ Len(bytes) < 3
         THEN <<(b % 32) * 64 + (bytes[2] % 64)>>
                  \o DecodeModified(SubSeq(bytes, 3, Len(bytes)))
         ELSE <<(b % 16) * 4096 + ((bytes[2] % 64) * 64) + (bytes[3] % 64)>>
                  \o DecodeModified(SubSeq(bytes, 4, Len(bytes)))

\* NewStringUTF(c_string.as_ptr()): the UTF-16 units of the new string
NewStringUTF(cstr) == DecodeModified(UntilNul(cstr))

RECURSIVE EncodeModified(_)
\* the modified UTF-8 of UTF-16 units: unit by unit, NUL as C0 80
EncodeModified(units) ==
    IF units = <<>> THEN <<>>
    ELSE LET u == Head(units)
             b == IF u = 0 THEN <<192, 128>>
                  ELSE IF u < 128 THEN <<u>>
                  ELSE IF u < 2048 THEN <<192 + (u \div 64), 128 + (u % 64)>>
                  ELSE Enc3(u) IN
         b \o EncodeModified(Tail(units))

GetStringUTFLength(units) == Len(EncodeModified(units))
GetStringLength(units) == Len(units)

\* GetStringUTFRegion(str, 0, len, buf) followed by set_len(cesu8_len): the
\* first cesu8_len bytes of the modified UTF-8 of the first len units
GetStringUTFRegion(units, len, cesu8_len) ==
    SubSeq(EncodeModified(SubSeq(units, 1, len)), 1, cesu8_len)

IsCont(bytes, i) == i <= Len(bytes) /\ bytes[i] >= 128 /\ bytes[i] < 192

Malformed == [ok |-> FALSE, chars |-> <<>>]

RECURSIVE from_utf8(_)
\* String::from_utf8: the chars of well-formed UTF-8 (no overlong form, no
\* surrogate, nothing above U+10FFFF), or an error
from_utf8(bytes) ==
    IF bytes = <<>> THEN [ok |-> TRUE, chars |-> <<>>]
    ELSE LET b == Head(bytes)
             n == IF b < 128 THEN 1
                  ELSE IF b >= 194 /\ b < 224 THEN 2
                  ELSE IF b >= 224 /\ b < 240 THEN 3
                  ELSE IF b >= 240 /\ b < 245 THEN 4 ELSE 0
             c == CASE n = 1 -> b
                    [] n = 2 -> (b % 32) * 64 + (bytes[2] % 64)
                    [] n = 3 -> (b % 16) * 4096 + ((bytes[2] % 64) * 64)
                                   + (bytes[3] % 64)
                    [] n = 4 -> (b % 8) * 262144 + ((bytes[2] % 64) * 4096)
                                   + ((bytes[3] % 64) * 64) + (bytes[4] % 64)
                    [] OTHER -> 0 IN
         IF n = 0 \/ \E i \in 2..n : ~IsCont(bytes, i) THEN Malformed
         ELSE IF \/ n = 3 /\ (c < 2048 \/ (c >= 55296 /\ c < 57344))
                 \/ n = 4 /\ (c < 65536 \/ c > 1114111) THEN Malformed
         ELSE LET r == from_utf8(SubSeq(bytes, n + 1, Len(bytes))) IN
              IF r.ok THEN [ok |-> TRUE, chars |-> <<c>> \o r.chars]
              ELSE Malformed

RECURSIVE DecodeJavaCesu8(_)
\* the decoder of cesu8::from_java_cesu8: C0 80 is NUL, two surrogates in
\* three bytes each are one char, a surrogate alone or a four-byte form is
\* an error
DecodeJavaCesu8(bytes) ==
    IF bytes = <<>> THEN [ok |-> TRUE, chars |-> <<>>]
    ELSE LET b == Head(bytes)
             n == IF b < 128 THEN 1
                  ELSE IF b >= 192 /\ b < 224 THEN 2
                  ELSE IF b >= 224 /\ b < 240 THEN 3 ELSE 0
             u == CASE n = 1 -> b
                    [] n = 2 -> (b % 32) * 64 + (bytes[2] % 64)
                    [] n = 3 -> (b % 16) * 4096 + ((bytes[2] % 64) * 64)
                                   + (bytes[3] % 64)
                    [] OTHER -> 0
             pair == /\ IsCont(bytes, 5) /\ IsCont(bytes, 6)
                     /\ bytes[4] = 237 /\ bytes[5] >= 176
             lo == (bytes[4] % 16) * 4096 + ((bytes[5] % 64) * 64)
                       + (bytes[6] % 64) IN
         IF n = 0 \/ \E i \in 2..n : ~IsCont(bytes, i) THEN Malformed
         ELSE IF n = 2 /\ u < 128 /\ u # 0 THEN Malformed
         ELSE IF n = 3 /\ u < 2048 THEN Malformed
         ELSE IF n = 3 /\ u >= 56320 /\ u < 57344 THEN Malformed
         ELSE IF n = 3 /\ u >= 55296 /\ u < 56320
         THEN IF ~pair THEN Malformed
              ELSE LET r == DecodeJavaCesu8(SubSeq(bytes, 7, Len(bytes))) IN
                   IF r.ok
                   THEN [ok |-> TRUE,
                         chars |-> <<65536 + (u - 55296) * 1024 + (lo - 56320)>>
                                       \o r.chars]
                   ELSE Malformed
         ELSE LET r == DecodeJavaCesu8(SubSeq(bytes, n + 1, Len(bytes))) IN
              IF r.ok THEN [ok |-> TRUE, chars |-> <<u>> \o r.chars]
              ELSE Malformed

\* cesu8::from_java_cesu8: bytes that are UTF-8 already are taken as they
\* are, the others are decoded
from_java_cesu8(bytes) ==
    IF from_utf8(bytes).ok THEN from_utf8(bytes) ELSE DecodeJavaCesu8(bytes)

\* into_rust from the bytes read: String::from_utf8, and from_java_cesu8 on
\* the bytes it rejects
decoded(cesu_bytes) ==
    IF from_utf8(cesu_bytes).ok THEN from_utf8(cesu_bytes)
    ELSE from_java_cesu8(cesu_bytes)

\* no string object has been made
NoString == [obj |-> NULL, units |-> <<>>, text |-> <<>>]

\* IntoRust<String>::into_rust: op is the result of self.execute_with, exc
\* the exception GetStringUTFRegion raises (or NULL), valid whether the
\* bytes read decode as (modified) UTF-8
into_rust(env, op, exc, valid) ==
    IF op.kind # "Ok"
    THEN [kind |-> op.kind, ptr |-> NULL, pending |-> NULL,
          ref |-> op.ref, calls |-> <<>>]
    ELSE LET c == check_exception(env, exc)
             raw == <<"GetStringUTFLength", "GetStringLength",
                      "GetStringUTFRegion">>
         IN
         IF c.kind # "Ok"
         THEN [kind |-> c.kind, ptr |-> NULL, pending |-> c.pending,
               ref |-> c.ref, calls |-> raw \o c.calls]
         ELSE [kind |-> IF valid THEN "Ok" ELSE "JvmInternal", ptr |-> NULL,
               pending |-> c.pending, ref |-> NoRef, calls |-> raw \o c.calls]

\* ------------------------------------------- the runtime's reference slots
FreeSlot == [kind |-> "free", obj |-> NULL, env |-> NULL]

FreeHandles(tab, hs) == {h \in hs : tab[h].kind = "free"}

\* the object behind handle h; a handle whose slot was freed is dangling and
\* what the runtime reads through it is not defined: `guess`
Resolve(tab, h, guess) == IF tab[h].kind # "free" THEN tab[h].obj ELSE guess

\* NewLocalRef(env, ref to o): a fresh local slot for o, or null when o is
\* null or no slot can be had (ok = FALSE, or the slots are used up); the
\* lowest free address stands for any free address
NewLocalRef(tab, env, o, ok) ==
    IF ok /\ o # NULL /\ FreeHandles(tab, LocalHandles) # {}
    THEN LET h == CHOOSE x \in FreeHandles(tab, LocalHandles) :
                      \A y \in FreeHandles(tab, LocalHandles) : x <= y IN
         [ret |-> h,
          tab |-> [tab EXCEPT ![h] = [kind |-> "local", obj |-> o, env |-> env]]]
    ELSE [ret |-> NULL, tab |-> tab]

\* NewGlobalRef(env, ref to o)
NewGlobalRef(tab, env, o, ok) ==
    IF ok /\ o # NULL /\ FreeHandles(tab, GlobalHandles) # {}
    THEN LET h == CHOOSE x \in FreeHandles(tab, GlobalHandles) :
                      \A y \in FreeHandles(tab, GlobalHandles) : x <= y IN
         [ret |-> h,
          tab |-> [tab EXCEPT ![h] = [kind |-> "global", obj |-> o, env |-> NULL]]]
    ELSE [ret |-> NULL, tab |-> tab]

\* DeleteLocalRef(env, h): frees the local slot at h; on a handle that is not
\* a live local reference of env the call is undefined and reported stale
DeleteLocalRef(tab, env, h) ==
    IF tab[h].kind = "local" /\ tab[h].env = env
    THEN [tab |-> [tab EXCEPT ![h] = FreeSlot], stale |-> FALSE]
    ELSE [tab |-> tab, stale |-> TRUE]

\* DeleteGlobalRef(env, h)
DeleteGlobalRef(tab, env, h) ==
    IF tab[h].kind = "global"
    THEN [tab |-> [tab EXCEPT ![h] = FreeSlot], stale |-> FALSE]
    ELSE [tab |-> tab, stale |-> TRUE]

\* JvmPtr::env: GetEnv replies JNI_OK with the environment of an attached
\* thread, JNI_EDETACHED for a thread that is not attached, or another code
JvmPtr_env(t, attached, fail) ==
    IF fail THEN [kind |-> "JvmInternal", env |-> <<>>]
    ELSE IF attached THEN [kind |-> "Ok", env |-> <<EnvOf(t)>>]
    ELSE [kind |-> "Ok", env |-> <<>>]

\* --------------------------------------------------------------- ref_.rs
\* a durable reference: Global { jvm, obj }
Global_from_raw(jvm, obj) == [jvm |-> jvm, obj |-> obj]

IsLocal(v) == "env" \in DOMAIN v

\* JavaObjectExt::from_raw / as_raw: the borrowed view &T is the handle's
\* address reinterpreted, and as_raw reads the address back
from_raw(ptr) == [addr |-> ptr]
as_raw(view) == view.addr

\* Deref / AsRef<S> for Local and Global: S::from_raw(self.obj)
as_ref(v) == from_raw(v.obj)

\* Local::new(env, obj): obj is the view of an existing reference, o the
\* object the runtime finds behind it
Local_new(tab, env, obj, o, ok) ==
    LET r == NewLocalRef(tab, env, o, ok) IN
    IF r.ret = NULL   \* NonNull::new(new_ref).unwrap()
    THEN [kind |-> "Panic", val |-> <<>>, tab |-> r.tab,
          calls |-> <<"NewLocalRef">>]
    ELSE [kind |-> "Ok", val |-> <<Local_from_raw(env, r.ret)>>, tab |-> r.tab,
          calls |-> <<"NewLocalRef">>]

\* Global::new that hands the runtime the view of another object
Global_new_OtherObject(tab, jvm, env, obj, o, ok) ==
    LET r == NewGlobalRef(tab, env, CHOOSE x \in Objects : x # o, ok) IN
    IF r.ret = NULL
    THEN [kind |-> "Panic", val |-> <<>>, tab |-> r.tab,
          calls |-> <<"NewGlobalRef">>]
    ELSE [kind |-> "Ok", val |-> <<Global_from_raw(jvm, r.ret)>>,
          tab |-> r.tab, calls |-> <<"NewGlobalRef">>]

\* Global::new(jvm, env, obj)
Global_new(tab, jvm, env, obj, o, ok) ==
    LET r == NewGlobalRef(tab, env, o, ok) IN
    IF r.ret = NULL   \* NonNull::new(new_ref).unwrap()
    THEN [kind |-> "Panic", val |-> <<>>, tab |-> r.tab,
          calls |-> <<"NewGlobalRef">>]
    ELSE [kind |-> "Ok", val |-> <<Global_from_raw(jvm, r.ret)>>,
          tab |-> r.tab, calls |-> <<"NewGlobalRef">>]

\* impl Drop for Local: DeleteLocalRef through the stored environment
Local_drop(tab, l) ==
    LET d == DeleteLocalRef(tab, l.env, l.obj) IN
    [kind |-> "Unit", tab |-> d.tab, stale |-> d.stale,
     calls |-> <<"DeleteLocalRef">>, attached |-> FALSE, env |-> l.env]

Global_drop_DeleteAnyway(tab, g, t, attached, fail, ok) ==
    LET d == DeleteGlobalRef(tab, EnvOf(t), g.obj) IN
    [kind |-> "Unit", tab |-> d.tab, stale |-> d.stale,
     calls |-> <<"GetEnv", "DeleteGlobalRef">>, attached |-> FALSE,
     env |-> EnvOf(t)]

Global_drop_NoAttach(tab, g, t, attached, fail, ok) ==
    LET e == JvmPtr_env(t, attached, fail) IN
    IF e.kind = "Ok" /\ e.env # <<>>
    THEN LET d == DeleteGlobalRef(tab, e.env[1], g.obj) IN
         [kind |-> "Unit", tab |-> d.tab, stale |-> d.stale,
          calls |-> <<"GetEnv", "DeleteGlobalRef">>, attached |-> FALSE,
          env |-> e.env[1]]
    ELSE [kind |-> "Unit", tab |-> tab, stale |-> FALSE,
          calls |-> <<"GetEnv">>, attached |-> FALSE, env |-> NULL]

\* a drop that takes its environment from thread::attach, which reads the
\* thread-local state and fails when a guard is live
Global_drop_ViaState(tab, g, t, attached, fail, ok) ==
    LET a == attached_or(state[t], attach_closure(t, FALSE, ok)) IN
    IF a.kind = "Ok"
    THEN LET d == DeleteGlobalRef(tab, a.guard[1].env, g.obj) IN
         [kind |-> "Unit", tab |-> d.tab, stale |-> d.stale,
          calls |-> <<"DeleteGlobalRef">>, attached |-> a.called,
          env |-> a.guard[1].env]
    ELSE [kind |-> a.kind, tab |-> tab, stale |-> FALSE,
          calls |-> <<>>, attached |-> FALSE, env |-> NULL]

\* impl Drop for Global on thread t: attached is the runtime's record of t,
\* fail the GetEnv reply being an error code, ok the AttachCurrentThread reply
Global_drop(tab, g, t, attached, fail, ok) ==
    LET e == JvmPtr_env(t, attached, fail) IN
    IF e.kind # "Ok"
    THEN [kind |-> "Unit", tab |-> tab, stale |-> FALSE,
          calls |-> <<"GetEnv">>, attached |-> FALSE, env |-> NULL]
    ELSE IF e.env # <<>>
    THEN LET d == DeleteGlobalRef(tab, e.env[1], g.obj) IN
         [kind |-> "Unit", tab |-> d.tab, stale |-> d.stale,
          calls |-> <<"GetEnv", "DeleteGlobalRef">>, attached |-> FALSE,
          env |-> e.env[1]]
    ELSE LET a == attach_thread(t, ok) IN
         IF a.kind = "Ok"
         THEN LET d == DeleteGlobalRef(tab, a.env, g.obj) IN
              [kind |-> "Unit", tab |-> d.tab, stale |-> d.stale,
               calls |-> <<"GetEnv", "AttachCurrentThread", "DeleteGlobalRef">>,
               attached |-> TRUE, env |-> a.env]
         ELSE [kind |-> "Unit", tab |-> tab, stale |-> FALSE,
               calls |-> <<"GetEnv", "AttachCurrentThread">>,
               attached |-> FALSE, env |-> NULL]

Local_upcast_OtherHandle(tab, l) ==
    LET upcast == Local_from_raw(l.env, CHOOSE h \in Handles : h # l.obj)
        d == Local_drop(tab, l) IN
    [d EXCEPT !.kind = "Ok"] @@ [val |-> <<upcast>>]

\* Local::upcast(self): the new value is built from self's fields and self,
\* which is not forgotten, is dropped when the function returns
Local_upcast(tab, l) ==
    LET upcast == Local_from_raw(l.env, l.obj)
        d == Local_drop(tab, l) IN
    [d EXCEPT !.kind = "Ok"] @@ [val |-> <<upcast>>]

\* Global::upcast(self): as Local::upcast, self is dropped on return
Global_upcast(tab, g, t, attached, fail, ok) ==
    LET upcast == Global_from_raw(g.jvm, g.obj)
        d == Global_drop(tab, g, t, attached, fail, ok) IN
    [d EXCEPT !.kind = "Ok"] @@ [val |-> <<upcast>>]

\* ---------------------------------------------------------------- jvm.rs
\* DetachCurrentThread for the thread of env: the runtime also frees the
\* local slots still allocated through env
DetachCurrentThread(tab, env) ==
    [h \in Handles |->
        IF tab[h].kind = "local" /\ tab[h].env = env THEN FreeSlot ELSE tab[h]]

\* the number of local slots allocated through env
LiveLocals(tab, env) ==
    Cardinality({h \in Handles : tab[h].kind = "local" /\ tab[h].env = env})

\* Jvm::local(&mut self, r)
Jvm_local(tab, env, r, o, ok) ==
    LET n == NewLocalRef(tab, env, o, ok) IN
    IF n.ret = NULL   \* NonNull::new(new_ref).unwrap()
    THEN [kind |-> "Panic", val |-> <<>>, tab |-> n.tab,
          calls |-> <<"NewLocalRef">>]
    ELSE [kind |-> "Ok", val |-> <<Local_from_raw(env, n.ret)>>, tab |-> n.tab,
          calls |-> <<"NewLocalRef">>]

\* Jvm::global(&mut self, r)
Jvm_global(tab, env, r, o, ok) ==
    LET n == NewGlobalRef(tab, env, o, ok) IN
    IF n.ret = NULL   \* NonNull::new(new_ref).unwrap()
    THEN [kind |-> "Panic", val |-> <<>>, tab |-> n.tab,
          calls |-> <<"NewGlobalRef">>]
    ELSE [kind |-> "Ok", val |-> <<Global_from_raw(GLOBAL_JVM, n.ret)>>,
          tab |-> n.tab, calls |-> <<"NewGlobalRef">>]

\* the error values: Thrown carries a reference, SliceTooLong a length,
\* JvmInternal a message, NullDeref and NestedUsage nothing
Error(kind, payload) == [kind |-> kind, payload |-> payload]

\* Error::into_global(self, jvm): ok is the reply of NewGlobalRef; the scoped
\* reference taken out of self is dropped when the match arm ends
into_global(tab, e, env, guess, ok) ==
    IF e.kind = "Thrown"
    THEN LET g == Jvm_global(tab, env, as_ref(e.payload),
                             Resolve(tab, e.payload.obj, guess), ok)
             d == Local_drop(g.tab, e.payload) IN
         [kind |-> g.kind,
          err |-> IF g.kind = "Ok" THEN <<Error("Thrown", g.val[1])>> ELSE <<>>,
          tab |-> d.tab, calls |-> g.calls \o d.calls]
    ELSE [kind |-> "Ok", err |-> <<e>>, tab |-> tab, calls |-> <<>>]

\* the scoped references a closure still owns (a bag) are dropped, one
\* after the other, when it returns
RECURSIVE DropLocals(_, _)
DropLocals(tab, ls) ==
    IF ls = EmptyBag THEN [tab |-> tab, calls |-> <<>>, stale |-> FALSE]
    ELSE LET l == CHOOSE v \in BagToSet(ls) : TRUE
             d == Local_drop(tab, l)
             r == DropLocals(d.tab, ls (-) SetToBag({l})) IN
         [tab |-> r.tab, calls |-> d.calls \o r.calls,
          stale |-> d.stale \/ r.stale]

\* the guard of GLOBAL_JVM.attach_current_thread(): the thread's environment,
\* and whether this call attached the thread (and so detaches it on drop)
JniGuard(env, owns) == [env |-> env, owns |-> owns]

\* Jvm::with up to the call of op: attach_current_thread()?
Jvm_with_attach(t, attached, ok) ==
    IF attached
    THEN [kind |-> "Ok", guard |-> <<JniGuard(EnvOf(t), FALSE)>>,
          calls |-> <<>>]
    ELSE LET a == attach_thread(t, ok) IN
         IF a.kind = "Ok"
         THEN [kind |-> "Ok", guard |-> <<JniGuard(a.env, TRUE)>>,
               calls |-> <<"AttachCurrentThread">>]
         ELSE [kind |-> "JvmInternal", guard |-> <<>>,
               calls |-> <<"AttachCurrentThread">>]

\* the guard goes out of scope
JniGuard_drop(tab, guard) ==
    [tab |-> IF guard.owns THEN DetachCurrentThread(tab, guard.env) ELSE tab,
     calls |-> IF guard.owns THEN <<"drop(guard)", "DetachCurrentThread">>
               ELSE <<"drop(guard)">>,
     liveAtRelease |-> LiveLocals(tab, guard.env)]

\* Jvm::with from the return of op: op's remaining locals are dropped as it
\* returns res, an error is mapped through into_global, and guard, declared
\* first, is dropped last
Jvm_with_return_GuardFirst(tab, guard, locals, res, guess, ok) ==
    LET x == JniGuard_drop(tab, guard)
        d == DropLocals(x.tab, locals)
        g == IF res.kind = "Ok"
             THEN [kind |-> "Ok", err |-> <<>>, tab |-> d.tab, calls |-> <<>>]
             ELSE into_global(d.tab, res, guard.env, guess, ok) IN
    [kind |-> IF g.kind = "Panic" THEN "Panic" ELSE res.kind,
     err |-> g.err, tab |-> g.tab,
     calls |-> x.calls \o d.calls \o g.calls, mapCalls |-> g.calls,
     stale |-> d.stale, liveAtRelease |-> x.liveAtRelease]

Jvm_with_return(tab, guard, locals, res, guess, ok) ==
    LET d == DropLocals(tab, locals)
        g == IF res.kind = "Ok"
             THEN [kind |-> "Ok", err |-> <<>>, tab |-> d.tab, calls |-> <<>>]
             ELSE into_global(d.tab, res, guard.env, guess, ok)
        x == JniGuard_drop(g.tab, guard) IN
    [kind |-> IF g.kind = "Panic" THEN "Panic" ELSE res.kind,
     err |-> g.err, tab |-> x.tab,
     calls |-> d.calls \o g.calls \o x.calls, mapCalls |-> g.calls,
     stale |-> d.stale, liveAtRelease |-> x.liveAtRelease]

\* ----------------------------------------------------- jvm.rs GLOBAL_JVM
\* static GLOBAL_JVM: Lazy<JavaVM>. The cell is Uninit, Running (a thread is
\* inside the initializer) or Init; init tells whether the initializer
\* closure is still in the cell (Lazy takes it out to run it), runs counts
\* the times it was started, vm is the handle of the machine it made
LazyNew ==
    [state |-> "Uninit", init |-> TRUE, by |-> NULL, runs |-> 0, vm |-> NULL,
     options |-> <<>>]

\* a cell without synchronisation: a thread that finds the initializer
\* running runs it as well
Lazy_force_Unsync(c, t) ==
    CASE c.state = "Init" -> [cell |-> c, out |-> "Value"]
      [] c.state \in {"Uninit", "Running"} ->
            [cell |-> [c EXCEPT !.state = "Running", !.init = FALSE,
                                !.by = t, !.runs = @ + 1],
             out |-> "Run"]

\* the dereference of GLOBAL_JVM on thread t (Lazy::force): the value when
\* the cell is Init; when it is Uninit the thread takes the initializer and
\* runs it, or panics if the initializer is gone (an earlier run panicked);
\* when another thread is running it, t waits
Lazy_force(c, t) ==
    CASE c.state = "Init" -> [cell |-> c, out |-> "Value"]
      [] c.state = "Running" -> [cell |-> c, out |-> "Wait"]
      [] c.state = "Uninit" /\ c.init ->
            [cell |-> [c EXCEPT !.state = "Running", !.init = FALSE,
                                !.by = t, !.runs = @ + 1],
             out |-> "Run"]
      [] c.state = "Uninit" /\ ~c.init -> [cell |-> c, out |-> "Panic"]

\* the initializer closure: the arguments are -Xcheck:jni and, when
\* CLASSPATH is set, -Djava.class.path; build() and JavaVM::new are unwrapped
GLOBAL_JVM_init(classpath, buildOk, createOk) ==
    LET options == IF classpath THEN <<"-Xcheck:jni", "-Djava.class.path">>
                   ELSE <<"-Xcheck:jni">> IN
    IF buildOk /\ createOk
    THEN [kind |-> "Ok", vm |-> GLOBAL_JVM, options |-> options]
    ELSE [kind |-> "Panic", vm |-> NULL, options |-> <<>>]

\* what a thread has got from GLOBAL_JVM in its Jvm::with call
NotRead == [kind |-> "None", jvm |-> NULL]

\* -------------------------------------------------------------- last op
NoOp ==
    [thread |-> NULL, op |-> "none", kind |-> "none", ref |-> NoRef,
     pre |-> Detached, live |-> 0, rtOk |-> TRUE,
     attachCalls |-> 0, detachCalls |-> 0, calls |-> <<>>,
     pendingBefore |-> NULL, prevThrown |-> FALSE,
     guard |-> <<>>, afterNested |-> FALSE,
     src |-> <<>>, val |-> <<>>, stale |-> FALSE, arg |-> <<>>,
     env |-> NULL, attachedBefore |-> FALSE, liveAtRelease |-> 0,
     envFail |-> FALSE, obj |-> NULL, mapCalls |-> <<>>]

Init ==
    /\ state = [t \in Threads |-> Detached]
    /\ guards = [t \in Threads |-> <<>>]
    /\ jvmAttached = [t \in Threads |-> FALSE]
    /\ external = [t \in Threads |-> FALSE]
    /\ pending = [t \in Threads |-> NULL]
    /\ permOk = [t \in Threads |-> FALSE]
    /\ nested = [t \in Threads |-> FALSE]
    /\ scope = [t \in Threads |-> <<>>]
    /\ refs = [h \in Handles |-> FreeSlot]
    /\ held = EmptyBag
    /\ lineage = [h \in Handles |-> NULL]
    /\ jvmCell = [cell |-> LazyNew, seen |-> [t \in Threads |-> NotRead]]
    /\ jstring = NoString
    /\ last = NoOp

\* an attach whose STATE is one process-wide cell instead of a thread-local
AttachOp_ProcessWide(t, permanent, ok) ==
    LET r == attached_or(state[t], attach_closure(t, permanent, ok)) IN
    /\ state' = [u \in Threads |-> r.st]
    /\ guards' = [guards EXCEPT ![t] = @ \o r.guard]
    /\ jvmAttached' = [jvmAttached EXCEPT ![t] = @ \/ (r.called /\ ok)]
    /\ permOk' = [permOk EXCEPT ![t] = @ \/ (permanent /\ r.kind = "Ok")]
    /\ nested' = [nested EXCEPT ![t] = @ \/ r.kind = "NestedUsage"]
    /\ last' = [NoOp EXCEPT !.thread = t,
                  !.op = IF permanent THEN "attach_permanently" ELSE "attach",
                  !.kind = r.kind, !.pre = state[t],
                  !.live = Len(guards[t]),
                  !.rtOk = IF r.called THEN ok ELSE TRUE,
                  !.attachCalls = IF r.called THEN 1 ELSE 0,
                  !.guard = r.guard, !.afterNested = nested[t],
                  !.pendingBefore = pending[t]]
    /\ UNCHANGED <<external, pending, scope, refs, held, lineage, jvmCell,
                   jstring>>

\* attach(jvm) / attach_permanently(jvm) on thread t; ok is the reply of
\* AttachCurrentThread should it be called
AttachOp(t, permanent, ok) ==
    LET r == attached_or(state[t], attach_closure(t, permanent, ok)) IN
    /\ state' = [state EXCEPT ![t] = r.st]
    /\ guards' = [guards EXCEPT ![t] = @ \o r.guard]
    /\ jvmAttached' = [jvmAttached EXCEPT ![t] = @ \/ (r.called /\ ok)]
    /\ permOk' = [permOk EXCEPT ![t] = @ \/ (permanent /\ r.kind = "Ok")]
    /\ nested' = [nested EXCEPT ![t] = @ \/ r.kind = "NestedUsage"]
    /\ last' = [NoOp EXCEPT !.thread = t,
                  !.op = IF permanent THEN "attach_permanently" ELSE "attach",
                  !.kind = r.kind, !.pre = state[t],
                  !.live = Len(guards[t]),
                  !.rtOk = IF r.called THEN ok ELSE TRUE,
                  !.attachCalls = IF r.called THEN 1 ELSE 0,
                  !.guard = r.guard, !.afterNested = nested[t],
                  !.pendingBefore = pending[t]]
    /\ UNCHANGED <<external, pending, scope, refs, held, lineage, jvmCell,
                   jstring>>

attach_permanently(t) == \E ok \in BOOLEAN : AttachOp(t, TRUE, ok)

attach(t) == \E ok \in BOOLEAN : AttachOp(t, FALSE, ok)

\* the i-th guard of `gs` removed
RemoveAt(gs, i) == SubSeq(gs, 1, i - 1) \o SubSeq(gs, i + 1, Len(gs))

\* a live guard of thread t goes out of scope; ok is the reply of
\* DetachCurrentThread should it be called
DropGuard(t) ==
    \E i \in 1..Len(guards[t]) : \E ok \in BOOLEAN :
      LET g == guards[t][i]
          r == AttachGuard_drop(state[t], g, ok) IN
      /\ state' = [state EXCEPT ![t] = r.st]
      /\ guards' = [guards EXCEPT ![t] = RemoveAt(@, i)]
      /\ jvmAttached' = [jvmAttached EXCEPT ![t] = @ /\ ~r.detached]
      /\ last' = [NoOp EXCEPT !.thread = t, !.op = "drop_guard",
                    !.kind = r.kind, !.pre = state[t],
                    !.live = Len(guards[t]),
                    !.rtOk = IF r.detachCalled THEN ok ELSE TRUE,
                    !.detachCalls = IF r.detachCalled THEN 1 ELSE 0,
                    !.guard = <<g>>, !.pendingBefore = pending[t]]
      /\ UNCHANGED <<external, pending, permOk, nested, scope, refs, held,
                     lineage, jvmCell, jstring>>

\* an actor outside the library (the runtime itself, other native code)
\* attaches a thread the library has not attached
ExternalAttach(t) ==
    /\ ~jvmAttached[t]
    /\ state[t] = Detached
    /\ guards[t] = <<>>
    /\ jvmAttached' = [jvmAttached EXCEPT ![t] = TRUE]
    /\ external' = [external EXCEPT ![t] = TRUE]
    /\ last' = [NoOp EXCEPT !.thread = t, !.op = "external_attach",
                  !.pre = state[t]]
    /\ UNCHANGED <<state, guards, pending, permOk, nested, scope, refs, held,
                   lineage, jvmCell, jstring>>

\* the record of an operation made through the environment of a live
\* guard; reply is what the runtime answered to its raw call, if it made one
EnvOp(t, name, r, reply) ==
    /\ pending' = [pending EXCEPT ![t] = r.pending]
    /\ last' = [NoOp EXCEPT !.thread = t, !.op = name, !.kind = r.kind,
                  !.ref = r.ref, !.pre = state[t], !.live = Len(guards[t]),
                  !.arg = reply,
                  !.obj = IF "ptr" \in DOMAIN r THEN r.ptr ELSE NULL,
                  !.calls = r.calls, !.pendingBefore = pending[t],
                  !.prevThrown = /\ last.thread = t
                                 /\ last.op = "check_exception"
                                 /\ last.kind = "Thrown"]
    /\ UNCHANGED <<state, guards, jvmAttached, external, permOk, nested,
                   scope, refs, held, lineage, jvmCell, jstring>>

\* a raw invocation through EnvPtr::invoke of an entry point that throws o
RawThrow(t) ==
    /\ guards[t] # <<>>
    /\ pending[t] = NULL
    /\ \E o \in Objects :
         EnvOp(t, "invoke", [kind |-> "Unit", ref |-> NoRef, pending |-> o,
                             calls |-> <<"Throw">>], <<>>)

CheckException(t) ==
    /\ guards[t] # <<>>
    /\ EnvOp(t, "check_exception",
             check_exception(guards[t][1].env, pending[t]), <<>>)

FindClass(t) ==
    /\ guards[t] # <<>>
    /\ pending[t] = NULL
    /\ \E rt \in LookupReplies :
         EnvOp(t, "find_class", find_class(guards[t][1].env, rt), <<rt>>)

FindMethod(t) ==
    /\ guards[t] # <<>>
    /\ pending[t] = NULL
    /\ \E rt \in LookupReplies :
         EnvOp(t, "find_method", find_method(guards[t][1].env, rt), <<rt>>)

IntoJava(t) ==
    /\ guards[t] # <<>>
    /\ pending[t] = NULL
    /\ \E rt \in LookupReplies :
         EnvOp(t, "into_java", into_java(guards[t][1].env, rt), <<rt>>)

\* the results self.execute_with can hand to into_rust
OpResults ==
    {[kind |-> "Ok", ref |-> Local_from_raw(NULL, o)] : o \in Objects}
        \cup {[kind |-> "NullDeref", ref |-> NoRef]}

IntoRust(t) ==
    /\ guards[t] # <<>>
    /\ pending[t] = NULL
    /\ \E op \in OpResults :
         \* the replies are only drawn on the paths that read them
         \E exc \in IF op.kind = "Ok" THEN Objects \cup {NULL} ELSE {NULL} :
           \E valid \in IF op.kind = "Ok" /\ exc = NULL THEN BOOLEAN ELSE {TRUE} :
             EnvOp(t, "into_rust",
                   into_rust(guards[t][1].env, op, exc, valid), <<>>)

\* ------------------------------------------------ references: operations
\* FromJniValue for Option<Local>: the raw reply of a call that returns an
\* object becomes a scoped reference of the calling environment, or None
FromJniValue(env, value) ==
    IF ObjectPtr_new(value) = <<>> THEN <<>>
    ELSE <<Local_from_raw(env, value)>>

\* the history kept with the slots tab2 an operation leaves: a freed slot
\* has none, the slot of the reference the operation made (if it made one)
\* takes o, the others keep theirs; an operation that leaves every slot as
\* it was made no reference and freed none
Track(tab2, made, o) ==
    IF tab2 = refs THEN lineage
    ELSE [h \in Handles |->
            IF tab2[h].kind = "free" THEN NULL
            ELSE IF made # <<>> /\ h = made[1].obj THEN o
            ELSE lineage[h]]

\* the object the reference src descends from; o is what the runtime finds
\* behind src when its slot is gone
LineageOf(src, o) ==
    IF refs[src.obj].kind # "free" THEN lineage[src.obj] ELSE o

\* IntoJniValue for Option<&T> that passes an absent argument as a handle
into_jni_value_NoneAsHandle(arg) ==
    IF arg = <<>> THEN CHOOSE h \in Handles : TRUE ELSE as_raw(arg[1])

\* IntoJniValue for &T is self.as_raw().as_ptr(); for Option<&T> it is that
\* of the reference, or the null address for None
into_jni_value(arg) ==
    IF arg = <<>> THEN NULL ELSE as_raw(arg[1])

\* the bag holding the values of the sequence vs
Owned(vs) == IF vs = <<>> THEN EmptyBag ELSE SetToBag({vs[1]})

\* the replies that are only read on some paths are only drawn there
Guesses(h) == IF refs[h].kind = "free" THEN Objects \cup {NULL} ELSE {NULL}
SlotReplies(o, hs) ==
    IF o # NULL /\ FreeHandles(refs, hs) # {} THEN BOOLEAN ELSE {FALSE}

\* the thread that calls Jvm::with; the other threads are the ones the
\* references it makes are moved to or shared with
Caller == CHOOSE t \in Threads : \A u \in Threads : t <= u

\* thread t calls Jvm::with: the part before op runs
WithBegin(t) ==
    /\ t = Caller
    /\ scope[t] = <<>>
    /\ \E ok \in IF jvmAttached[t] THEN {TRUE} ELSE BOOLEAN :
         LET r == Jvm_with_attach(t, jvmAttached[t], ok) IN
         /\ scope' = [scope EXCEPT ![t] = r.guard]
         /\ jvmAttached' = [jvmAttached EXCEPT ![t] = @ \/ r.kind = "Ok"]
         /\ last' = [NoOp EXCEPT !.thread = t, !.op = "with_begin",
                       !.kind = r.kind, !.calls = r.calls,
                       !.attachedBefore = jvmAttached[t]]
    /\ UNCHANGED <<state, guards, external, pending, permOk, nested,
                   refs, held, lineage, jvmCell, jstring>>

\* inside op, a call that returns an object (a constructor, a method): the
\* runtime replies with a fresh local handle, or null
InvokeObject(t) ==
    /\ scope[t] # <<>>
    /\ BagCardinality(held) <= MaxRefs
    /\ \E o \in Objects \cup {NULL} :
         LET env == scope[t][1].env
             n == NewLocalRef(refs, env, o, TRUE)
             v == FromJniValue(env, n.ret) IN
         /\ refs' = n.tab
         /\ held' = held (+) Owned(v)
         /\ lineage' = Track(refs', v, o)
         /\ last' = [NoOp EXCEPT !.thread = t, !.op = "invoke",
                       !.kind = "Ok", !.val = v, !.env = env, !.obj = n.ret]
    /\ UNCHANGED <<state, guards, jvmAttached, external, pending, permOk,
                   nested, scope, jvmCell, jstring>>

\* inside op, recv.equals(arg) is called with an optional argument: None, or
\* Some of a reference the program holds. Object.equals compares the
\* identities of the two objects, and no object is equal to null
Equals(t) ==
    /\ scope[t] # <<>>
    /\ \E recv \in BagToSet(held) :
       \E arg \in {<<>>} \cup {<<v>> : v \in BagToSet(held)} :
         LET j == into_jni_value(IF arg = <<>> THEN <<>>
                                 ELSE <<as_ref(arg[1])>>) IN
         \E g1 \in Guesses(recv.obj) :
         \E g2 \in IF j = NULL THEN {NULL} ELSE Guesses(j) :
           LET this == Resolve(refs, recv.obj, g1)
               that == IF j = NULL THEN NULL ELSE Resolve(refs, j, g2) IN
           last' = [NoOp EXCEPT !.thread = t, !.op = "equals", !.kind = "Ok",
                      !.src = <<recv>>, !.arg = arg, !.obj = j,
                      !.val = <<this # NULL /\ this = that>>,
                      !.env = scope[t][1].env]
    /\ UNCHANGED <<state, guards, jvmAttached, external, pending, permOk,
                   nested, scope, refs, held, lineage, jvmCell, jstring>>

\* inside op, a reference is duplicated into a scoped one, by Local::new
\* or by Jvm::local
DupLocal(t) ==
    /\ scope[t] # <<>>
    /\ BagCardinality(held) <= MaxRefs
    /\ \E src \in BagToSet(held) : \E guess \in Guesses(src.obj) :
         LET env == scope[t][1].env
             o == Resolve(refs, src.obj, guess) IN
         \E ok \in SlotReplies(o, LocalHandles) :
         \E r \in {Local_new(refs, env, as_ref(src), o, ok),
                   Jvm_local(refs, env, as_ref(src), o, ok)} :
           /\ refs' = r.tab
           /\ held' = held (+) Owned(r.val)
           /\ lineage' = Track(refs', r.val, LineageOf(src, o))
           /\ last' = [NoOp EXCEPT !.thread = t, !.op = "local",
                         !.kind = r.kind,
                         !.calls = r.calls, !.src = <<src>>, !.val = r.val,
                         !.rtOk = ok, !.env = env,
                         !.stale = refs[src.obj].kind = "free"]
    /\ UNCHANGED <<state, guards, jvmAttached, external, pending, permOk,
                   nested, scope, jvmCell, jstring>>

\* inside op, a reference is duplicated into a durable one, by Global::new
\* or by Jvm::global
DupGlobal(t) ==
    /\ scope[t] # <<>>
    /\ BagCardinality(held) <= MaxRefs
    /\ \E src \in BagToSet(held) : \E guess \in Guesses(src.obj) :
         LET env == scope[t][1].env
             o == Resolve(refs, src.obj, guess) IN
         \E ok \in SlotReplies(o, GlobalHandles) :
         \E r \in {Global_new(refs, GLOBAL_JVM, env, as_ref(src), o, ok),
                   Jvm_global(refs, env, as_ref(src), o, ok)} :
           /\ refs' = r.tab
           /\ held' = held (+) Owned(r.val)
           /\ lineage' = Track(refs', r.val, LineageOf(src, o))
           /\ last' = [NoOp EXCEPT !.thread = t, !.op = "global",
                         !.kind = r.kind,
                         !.calls = r.calls, !.src = <<src>>, !.val = r.val,
                         !.rtOk = ok, !.env = env,
                         !.stale = refs[src.obj].kind = "free"]
    /\ UNCHANGED <<state, guards, jvmAttached, external, pending, permOk,
                   nested, scope, jvmCell, jstring>>

\* the replies a drop of a durable reference on thread t reads:
\* AttachCurrentThread is called when the thread is not attached
AttachReplies(t, fail) == IF fail \/ jvmAttached[t] THEN {TRUE} ELSE BOOLEAN

\* thread t upcasts a reference; Local and Global are Send and Sync, so
\* the thread need not be the one that made it
Upcast(t) ==
    \E src \in BagToSet(held) :
    \E fail \in IF IsLocal(src) THEN {FALSE} ELSE BOOLEAN :
    \E ok \in IF IsLocal(src) THEN {TRUE} ELSE AttachReplies(t, fail) :
      LET r == IF IsLocal(src) THEN Local_upcast(refs, src)
               ELSE Global_upcast(refs, src, t, jvmAttached[t], fail, ok) IN
      /\ refs' = r.tab
      /\ held' = (held (-) SetToBag({src})) (+) Owned(r.val)
      /\ lineage' = Track(refs', <<>>, NULL)
      /\ jvmAttached' = [jvmAttached EXCEPT ![t] = @ \/ r.attached]
      /\ last' = [NoOp EXCEPT !.thread = t, !.op = "upcast", !.kind = r.kind,
                    !.calls = r.calls, !.src = <<src>>, !.val = r.val,
                    !.stale = r.stale, !.env = r.env, !.rtOk = ok,
                    !.envFail = fail, !.attachedBefore = jvmAttached[t]]
      /\ UNCHANGED <<state, guards, external, pending, permOk, nested, scope,
                     jvmCell, jstring>>

\* a scoped reference goes out of scope on thread t
DropLocal(t) ==
    \E src \in {v \in BagToSet(held) : IsLocal(v)} :
      LET r == Local_drop(refs, src) IN
      /\ refs' = r.tab
      /\ held' = held (-) SetToBag({src})
      /\ lineage' = Track(refs', <<>>, NULL)
      /\ last' = [NoOp EXCEPT !.thread = t, !.op = "drop", !.kind = r.kind,
                    !.calls = r.calls, !.src = <<src>>,
                    !.stale = r.stale, !.env = r.env,
                    !.attachedBefore = jvmAttached[t]]
      /\ UNCHANGED <<state, guards, jvmAttached, external, pending, permOk,
                     nested, scope, jvmCell, jstring>>

\* a durable reference goes out of scope on thread t
DropGlobal(t) ==
    \E src \in {v \in BagToSet(held) : ~IsLocal(v)} :
    \E fail \in BOOLEAN : \E ok \in AttachReplies(t, fail) :
      LET r == Global_drop(refs, src, t, jvmAttached[t], fail, ok) IN
      /\ refs' = r.tab
      /\ held' = held (-) SetToBag({src})
      /\ lineage' = Track(refs', <<>>, NULL)
      /\ jvmAttached' = [jvmAttached EXCEPT ![t] = @ \/ r.attached]
      /\ last' = [NoOp EXCEPT !.thread = t, !.op = "drop", !.kind = r.kind,
                    !.calls = r.calls, !.src = <<src>>,
                    !.stale = r.stale, !.env = r.env, !.rtOk = ok,
                    !.envFail = fail, !.attachedBefore = jvmAttached[t]]
      /\ UNCHANGED <<state, guards, external, pending, permOk, nested, scope,
                     jvmCell, jstring>>

\* what op can return besides Ok: lengths and messages are drawn from a
\* small set
ErrorValues ==
    {Error("NullDeref", NULL), Error("NestedUsage", NULL)}
      \cup {Error(k, p) : k \in {"SliceTooLong", "JvmInternal"}, p \in Objects}

\* the scoped references made through env among the values vs (a bag)
ScopedOf(vs, env) ==
    [v \in {w \in BagToSet(vs) : IsLocal(w) /\ w.env = env} |-> vs[v]]

\* op returns on thread t and Jvm::with runs to its end. The scoped
\* references of this call cannot outlive op (their lifetime is op's
\* parameter): those it has not dropped itself are dropped as it returns,
\* but for the one inside a Thrown error
WithEnd(t) ==
    /\ scope[t] # <<>>
    /\ LET guard == scope[t][1]
           mine == ScopedOf(held, guard.env) IN
       \E res \in {Error("Ok", NULL)} \cup ErrorValues
                    \cup {Error("Thrown", v) : v \in BagToSet(mine)} :
       \E guess \in IF res.kind = "Thrown" THEN Objects \cup {NULL}
                    ELSE {NULL} :
       \E ok \in IF res.kind = "Thrown" THEN BOOLEAN ELSE {FALSE} :
         LET locals == IF res.kind = "Thrown"
                       THEN mine (-) SetToBag({res.payload}) ELSE mine
         IN
         \E r \in {Jvm_with_return(refs, guard, locals, res, guess, ok)} :
         LET kept == IF r.err # <<>> /\ r.err[1].kind = "Thrown"
                     THEN SetToBag({r.err[1].payload}) ELSE EmptyBag IN
         /\ refs' = r.tab
         /\ held' = (held (-) mine) (+) kept
         /\ lineage' = Track(refs', IF kept = EmptyBag THEN <<>>
                                    ELSE <<r.err[1].payload>>,
                             IF res.kind # "Thrown" THEN NULL
                             ELSE IF DropLocals(refs, locals)
                                        .tab[res.payload.obj].kind # "free"
                             THEN lineage[res.payload.obj] ELSE guess)
         /\ scope' = [scope EXCEPT ![t] = <<>>]
         /\ jvmAttached' = [jvmAttached EXCEPT ![t] = @ /\ ~guard.owns]
         /\ last' = [NoOp EXCEPT !.thread = t, !.op = "with", !.kind = r.kind,
                       !.calls = r.calls, !.arg = <<res>>, !.val = r.err,
                       !.stale = r.stale, !.env = guard.env, !.rtOk = ok,
                       !.guard = <<guard>>, !.mapCalls = r.mapCalls,
                       !.obj = IF res.kind = "Thrown"
                               THEN Resolve(refs, res.payload.obj, guess)
                               ELSE NULL,
                       !.liveAtRelease = r.liveAtRelease]
    /\ UNCHANGED <<state, guards, external, pending, permOk, nested, jvmCell,
                   jstring>>

\* thread t, in Jvm::with, dereferences GLOBAL_JVM; a thread that finds the
\* initializer running is blocked until it has ended
Force(t) ==
    /\ jvmCell.seen[t] = NotRead
    /\ ~(jvmCell.cell.state = "Running" /\ jvmCell.cell.by = t)
    /\ LET r == Lazy_force(jvmCell.cell, t) IN
       /\ r.out # "Wait"
       /\ jvmCell' =
            [cell |-> r.cell,
             seen |-> CASE r.out = "Value" ->
                             [jvmCell.seen EXCEPT
                                 ![t] = [kind |-> "Ok", jvm |-> r.cell.vm]]
                        [] r.out = "Panic" ->
                             [jvmCell.seen EXCEPT
                                 ![t] = [kind |-> "Panic", jvm |-> NULL]]
                        [] r.out = "Run" -> jvmCell.seen]
       /\ last' = [NoOp EXCEPT !.thread = t, !.op = "force", !.kind = r.out]
    /\ UNCHANGED <<state, guards, jvmAttached, external, pending, permOk,
                   nested, scope, refs, held, lineage, jstring>>

\* the initializer started by thread t ends: it returns the machine, which
\* the cell keeps, or panics, which leaves the cell Uninit with no initializer
Initialize(t) ==
    /\ jvmCell.cell.state = "Running"
    /\ jvmCell.cell.by = t
    /\ \E classpath \in BOOLEAN :
       \E buildOk \in IF classpath THEN BOOLEAN ELSE {TRUE} :
       \E createOk \in IF buildOk THEN BOOLEAN ELSE {TRUE} :
         LET r == GLOBAL_JVM_init(classpath, buildOk, createOk) IN
         /\ jvmCell' =
              [cell |-> IF r.kind = "Ok"
                        THEN [jvmCell.cell EXCEPT !.state = "Init",
                                 !.vm = r.vm, !.options = r.options]
                        ELSE [jvmCell.cell EXCEPT !.state = "Uninit"],
               seen |-> [jvmCell.seen EXCEPT
                            ![t] = [kind |-> r.kind, jvm |-> r.vm]]]
         /\ last' = [NoOp EXCEPT !.thread = t, !.op = "initialize",
                       !.kind = r.kind]
    /\ UNCHANGED <<state, guards, jvmAttached, external, pending, permOk,
                   nested, scope, refs, held, lineage, jstring>>

\* the strs converted
Strings == UNION {[1..n -> Chars] : n \in 0..MaxLen}

\* inside op, text.to_java() runs: into_java encodes the str and calls
\* NewStringUTF, whose reply is a new string object, or null
ToJava(t) ==
    /\ scope[t] # <<>>
    /\ pending[t] = NULL
    /\ \E text \in Strings : \E rt \in LookupReplies :
         LET c_string == CString(to_java_cesu8(text))
             r == into_java(scope[t][1].env, rt) IN
         /\ pending' = [pending EXCEPT ![t] = r.pending]
         /\ jstring' = IF r.kind = "Ok"
                       THEN [obj |-> rt.ret, units |-> NewStringUTF(c_string),
                             text |-> text]
                       ELSE jstring
         /\ last' = [NoOp EXCEPT !.thread = t, !.op = "to_java",
                       !.kind = r.kind, !.ref = r.ref, !.calls = r.calls,
                       !.src = IF r.kind = "Ok" THEN <<text>> ELSE <<>>]
    /\ UNCHANGED <<state, guards, jvmAttached, external, permOk, nested,
                   scope, refs, held, lineage, jvmCell>>

\* inside op, to_rust() runs on the string object: into_rust reads its two
\* lengths and its bytes and decodes them
ToRust(t) ==
    /\ scope[t] # <<>>
    /\ pending[t] = NULL
    /\ jstring # NoString
    /\ LET object == [kind |-> "Ok", ref |-> Local_from_raw(NULL, jstring.obj)]
           cesu8_len == GetStringUTFLength(jstring.units)
           utf16_len == GetStringLength(jstring.units)
           cesu_bytes == GetStringUTFRegion(jstring.units, utf16_len, cesu8_len)
           d == decoded(cesu_bytes)
           r == into_rust(scope[t][1].env, object, NULL, d.ok) IN
       /\ pending' = [pending EXCEPT ![t] = r.pending]
       /\ last' = [NoOp EXCEPT !.thread = t, !.op = "to_rust",
                     !.kind = r.kind, !.ref = r.ref, !.calls = r.calls,
                     !.src = <<jstring.text>>,
                     !.val = IF r.kind = "Ok" THEN <<d.chars>> ELSE <<>>]
    /\ UNCHANGED <<state, guards, jvmAttached, external, permOk, nested,
                   scope, refs, held, lineage, jvmCell, jstring>>

\* the addresses the runtime can hand back, null included
Addresses == NULL..GLOBAL_JVM
Wrappers == {"JvmPtr", "EnvPtr", "ObjectPtr", "MethodPtr"}

\* an address the runtime handed back is wrapped
Wrap ==
    \E w \in Wrappers : \E ptr \in Addresses :
      /\ last' = [NoOp EXCEPT !.op = "new", !.kind = w, !.obj = ptr,
                    !.val = CASE w = "JvmPtr" -> JvmPtr_new(ptr)
                              [] w = "EnvPtr" -> EnvPtr_new(ptr)
                              [] w = "ObjectPtr" -> ObjectPtr_new(ptr)
                              [] w = "MethodPtr" -> MethodPtr_new(ptr)]
      /\ UNCHANGED <<state, guards, jvmAttached, external, pending, permOk,
                     nested, scope, refs, held, lineage, jvmCell, jstring>>

\* the thread attachment manager: every thread may attach, attach
\* permanently, release a guard, or be attached from outside
Next ==
    \E t \in Threads :
        \/ attach(t)
        \/ attach_permanently(t)
        \/ DropGuard(t)
        \/ ExternalAttach(t)

Spec == Init /\ [][Next]_vars

\* the exception bridge and its call sites, run through the environment of
\* a guard obtained by attach and held while they run
NextBridge ==
    \E t \in Threads :
        \/ attach(t)
        \/ RawThrow(t)
        \/ CheckException(t)
        \/ FindClass(t)
        \/ FindMethod(t)
        \/ IntoJava(t)
        \/ IntoRust(t)

SpecBridge == Init /\ [][NextBridge]_vars

\* scoped references inside Jvm::with: made, duplicated, dropped, and the
\* ways the call can end
NextScope ==
    \E t \in Threads :
        \/ WithBegin(t)
        \/ InvokeObject(t)
        \/ DupLocal(t)
        \/ DropLocal(t)
        \/ DropGlobal(t)
        \/ WithEnd(t)

SpecScope == Init /\ [][NextScope]_vars

\* durable references: made inside Jvm::with, dropped on any thread
NextDurable ==
    \E t \in Threads :
        \/ WithBegin(t)
        \/ InvokeObject(t)
        \/ DupGlobal(t)
        \/ DropLocal(t)
        \/ DropGlobal(t)
        \/ WithEnd(t)

SpecDurable == Init /\ [][NextDurable]_vars

\* upcasts of scoped and durable references
NextUpcast ==
    \E t \in Threads :
        \/ WithBegin(t)
        \/ InvokeObject(t)
        \/ DupGlobal(t)
        \/ Upcast(t)
        \/ WithEnd(t)

SpecUpcast == Init /\ [][NextUpcast]_vars

\* duplication in both directions, scoped to durable and durable to scoped,
\* on threads the library attaches and on threads attached from outside
NextRoundTrip ==
    \E t \in Threads :
        \/ ExternalAttach(t)
        \/ WithBegin(t)
        \/ InvokeObject(t)
        \/ DupGlobal(t)
        \/ DupLocal(t)
        \/ DropLocal(t)
        \/ WithEnd(t)

SpecRoundTrip == Init /\ [][NextRoundTrip]_vars

\* the first Jvm::with calls of the threads: each reads GLOBAL_JVM, and the
\* calling thread goes on through the call once it has the handle
NextLazy ==
    \E t \in Threads :
        \/ Force(t)
        \/ Initialize(t)
        \/ jvmCell.seen[t].kind = "Ok" /\ WithBegin(t)
        \/ InvokeObject(t)
        \/ WithEnd(t)

SpecLazy == Init /\ [][NextLazy]_vars

\* the handle wrappers, and the guards and references that hold what they
\* return
NextHandles ==
    \/ Wrap
    \/ \E t \in Threads :
        \/ attach(t)
        \/ WithBegin(t)
        \/ InvokeObject(t)

SpecHandles == Init /\ [][NextHandles]_vars

\* calls with optional arguments and optional results, on scoped and
\* durable references
NextOption ==
    \E t \in Threads :
        \/ WithBegin(t)
        \/ InvokeObject(t)
        \/ DupGlobal(t)
        \/ Equals(t)
        \/ DropLocal(t)
        \/ WithEnd(t)

SpecOption == Init /\ [][NextOption]_vars

\* strs made into runtime strings and read back
NextString ==
    \E t \in Threads :
        \/ WithBegin(t)
        \/ ToJava(t)
        \/ ToRust(t)
        \/ WithEnd(t)

SpecString == Init /\ [][NextString]_vars

\* the last operation made no runtime call that failed: no attach or
\* environment lookup returned an error code and no NewLocalRef or
\* NewGlobalRef returned null
CallsSucceed ==
    CASE last.op = "with_begin" -> last.kind = "Ok"
      [] last.op \in {"local", "global"} -> last.kind = "Ok"
      [] last.op \in {"upcast", "drop"} -> ~last.envFail /\ last.rtOk
      [] last.op = "with" -> last.kind # "Panic"
      [] OTHER -> TRUE

\* durable references made, upcast and dropped on any thread, in the runs
\* where every runtime call succeeds
NextCount ==
    \E t \in Threads :
        \/ WithBegin(t) /\ CallsSucceed'
        \/ InvokeObject(t) /\ CallsSucceed'
        \/ DupGlobal(t) /\ CallsSucceed'
        \/ Upcast(t) /\ CallsSucceed'
        \/ DropGlobal(t) /\ CallsSucceed'
        \/ WithEnd(t) /\ CallsSucceed'

SpecCount == Init /\ [][NextCount]_vars

\* the thread that takes and releases attachment guards while it drops the
\* durable references made on the calling thread
Worker == CHOOSE t \in Threads : \A u \in Threads : u <= t

\* durable references made inside Jvm::with on the calling thread and
\* dropped on any thread, the worker in any of its attachment states
NextFrame ==
    \E t \in Threads :
        \/ t = Worker /\ attach(t)
        \/ t = Worker /\ attach_permanently(t)
        \/ t = Worker /\ DropGuard(t)
        \/ WithBegin(t)
        \/ InvokeObject(t)
        \/ DupGlobal(t)
        \/ DropGlobal(t)

SpecFrame == Init /\ [][NextFrame]_vars

\* ---------------------------------------------------------------- claims
AttachOps == {"attach", "attach_permanently"}
CallSites == {"find_class", "find_method", "into_java", "into_rust"}
\* the raw entry points whose runtime contract says they may throw
MayThrow == {"FindClass", "GetMethodID", "NewStringUTF", "GetStringUTFRegion"}

\* C1: attach or attach_permanently called while the thread-local state is
\* InUse returns NestedUsage, makes no AttachCurrentThread call, creates no
\* guard and leaves the state InUse as it was.
C1_NestedUsageLeavesInUse ==
    (last.op \in AttachOps /\ last.pre.tag = "InUse") =>
        /\ last.kind = "NestedUsage"
        /\ last.attachCalls = 0
        /\ last.guard = <<>>
        /\ Len(guards[last.thread]) = last.live
        /\ state[last.thread] = last.pre

C1_Witness ==
    /\ last.op = "attach_permanently"
    /\ last.pre.tag = "InUse"
    /\ last.live = 1
    /\ last.kind = "NestedUsage"

\* C2: on a thread where an attach has failed with NestedUsage, an attach
\* made when no guard is live any more (the enclosing guard was released,
\* whatever the outcome of the release) and whose runtime attach call does
\* not fail returns Ok.
C2_AttachAfterReleaseSucceeds ==
    (last.op \in AttachOps /\ last.afterNested /\ last.live = 0 /\ last.rtOk)
        => last.kind = "Ok"

\* C3: attach or attach_permanently called in state Detached whose
\* AttachCurrentThread call fails returns an error, creates no guard and
\* leaves the state Detached, so that a later attach is not NestedUsage.
C3_AttachFailureRollsBack ==
    (last.op \in AttachOps /\ last.pre.tag = "Detached" /\ ~last.rtOk) =>
        /\ last.kind = "JvmInternal"
        /\ last.attachCalls = 1
        /\ last.guard = <<>>
        /\ state[last.thread] = Detached
        /\ attached_or(state[last.thread],
                       attach_closure(last.thread, FALSE, TRUE)).kind = "Ok"

C3_Witness ==
    /\ last.op = "attach"
    /\ last.pre.tag = "Detached"
    /\ ~last.rtOk
    /\ last.kind = "JvmInternal"

\* C4: releasing a transient guard (obtained by attach from Detached) calls
\* DetachCurrentThread exactly once and moves the state from InUse to
\* Detached.
C4_TransientReleaseDetaches ==
    (last.op = "drop_guard" /\ ~last.guard[1].permanent) =>
        /\ last.guard[1].origin = Detached
        /\ last.detachCalls = 1
        /\ last.pre = InUse
        /\ state[last.thread] = Detached

\* C5: a failure of DetachCurrentThread during the release of a transient
\* guard reaches the caller as an error value.
C5_DetachFailureSurfaced ==
    (last.op = "drop_guard" /\ last.detachCalls = 1 /\ ~last.rtOk)
        => last.kind = "JvmInternal"

\* C6: in state Attached(env), attach and attach_permanently return a guard
\* carrying env without calling AttachCurrentThread; releasing that guard
\* puts Attached(env) back and calls no DetachCurrentThread.
C6_AttachedBorrowsEnv ==
    /\ (last.op \in AttachOps /\ last.pre.tag = "Attached") =>
          /\ last.kind = "Ok"
          /\ last.attachCalls = 0
          /\ Len(last.guard) = 1
          /\ last.guard[1].env = last.pre.env
          /\ guards[last.thread] = <<last.guard[1]>>
          /\ state[last.thread] = InUse
    /\ (last.op = "drop_guard" /\ last.guard[1].origin.tag = "Attached") =>
          /\ state[last.thread] = last.guard[1].origin
          /\ last.detachCalls = 0
          /\ jvmAttached[last.thread]

C6_Witness ==
    /\ last.op = "drop_guard"
    /\ last.guard[1].origin.tag = "Attached"
    /\ state[last.thread].tag = "Attached"

\* C7: once attach_permanently has returned Ok on a thread, no operation on
\* that thread calls DetachCurrentThread, the state is never Detached again
\* and the thread stays attached to the runtime.
C7_PermanentNeverDetached ==
    \A t \in Threads :
        permOk[t] =>
            /\ state[t].tag # "Detached"
            /\ jvmAttached[t]
            /\ (last.thread = t => last.detachCalls = 0)

C7_Witness ==
    /\ last.op = "drop_guard"
    /\ permOk[last.thread]
    /\ ~last.afterNested
    /\ state[last.thread].tag = "Attached"

\* C8: releasing a transient guard on a thread that an external actor had
\* attached leaves the thread attached to the runtime.
C8_ExternalAttachmentKept ==
    (last.op = "drop_guard" /\ ~last.guard[1].permanent
        /\ external[last.thread]) => jvmAttached[last.thread]

\* C9: with an exception pending, check_exception returns Thrown wrapping
\* the pending object as a scoped reference on the caller's environment and
\* clears the signal; a check_exception made right after a Thrown one
\* returns Ok.
C9_ThrownReportedOnce ==
    last.op = "check_exception" =>
        /\ last.pendingBefore # NULL =>
              /\ last.kind = "Thrown"
              /\ last.ref = Local_from_raw(guards[last.thread][1].env,
                                           last.pendingBefore)
              /\ last.calls = <<"ExceptionOccurred", "ExceptionClear">>
              /\ pending[last.thread] = NULL
        /\ last.prevThrown => last.kind = "Ok" /\ last.ref = NoRef

C9_Witness ==
    /\ last.op = "check_exception"
    /\ last.prevThrown
    /\ last.kind = "Ok"

\* C10: at every wrapping call site, on every path, each raw invocation that
\* may throw is directly followed by a check_exception (ExceptionOccurred is
\* its first runtime call), the non-null path included.
C10_EveryMayThrowCallChecked ==
    last.op \in CallSites =>
        \A i \in 1..Len(last.calls) :
            last.calls[i] \in MayThrow =>
                /\ i < Len(last.calls)
                /\ last.calls[i + 1] = "ExceptionOccurred"

\* the reference values that hold handle h
Owners(h) ==
    BagCardinality([v \in {w \in BagToSet(held) : w.obj = h} |-> held[v]])

Count(calls, name) == Cardinality({i \in 1..Len(calls) : calls[i] = name})

\* every call named a comes before every call named b
Precedes(calls, a, b) ==
    \A i, j \in 1..Len(calls) : calls[i] = a /\ calls[j] = b => i < j

DurableDrop == last.op = "drop" /\ ~IsLocal(last.src[1])

\* C11: an upcast of a scoped or durable reference makes no call into the
\* runtime, and afterwards the handle is still allocated in the runtime and
\* exactly one reference value owns it.
C11_UpcastMakesNoRuntimeCall ==
    last.op = "upcast" =>
        /\ last.calls = <<>>
        /\ refs[last.val[1].obj].kind # "free"
        /\ Owners(last.val[1].obj) = 1

\* C12: the reference returned by upcast is of the same kind as the
\* original and holds the identical handle, and the view as_ref gives of it
\* is the view as_ref gave of the original.
C12_UpcastKeepsHandle ==
    last.op = "upcast" =>
        /\ IsLocal(last.val[1]) = IsLocal(last.src[1])
        /\ last.val[1].obj = last.src[1].obj
        /\ as_raw(as_ref(last.val[1])) = as_raw(as_ref(last.src[1]))

C12_Witness ==
    /\ last.op = "upcast"
    /\ ~IsLocal(last.src[1])
    /\ last.val[1] = last.src[1]

\* C13: when the guard of a Jvm::with call is released no scoped reference
\* made through its environment is left: every DeleteLocalRef of the call
\* comes before the release, the runtime holds no local slot of that
\* environment at the release, and no such reference value exists afterwards.
C13_ScopedReleasedBeforeGuard ==
    last.op = "with" =>
        /\ Precedes(last.calls, "DeleteLocalRef", "drop(guard)")
        /\ last.liveAtRelease = 0
        /\ ScopedOf(held, last.env) = EmptyBag

C13_Witness ==
    /\ last.op = "with"
    /\ last.guard[1].owns
    /\ Count(last.calls, "DeleteLocalRef") > 0
    /\ Count(last.calls, "DetachCurrentThread") > 0

\* C14: a scoped reference is released through the environment stored in
\* it, and on the thread whose attachment produced that environment.
C14_ScopedReleasedOnOwnThread ==
    (last.op = "drop" /\ IsLocal(last.src[1])) =>
        /\ last.env = last.src[1].env
        /\ last.src[1].env = EnvOf(last.thread)

\* C15 as stated: a durable reference made on one thread and dropped on
\* another thread that is not attached (thread-local state Detached) is
\* released: DeleteGlobalRef is called exactly once, through the environment
\* of the dropping thread.
C15_DetachedDropReleases ==
    (/\ DurableDrop
     /\ last.thread # Caller
     /\ ~last.attachedBefore
     /\ state[last.thread] = Detached) =>
        /\ Count(last.calls, "DeleteGlobalRef") = 1
        /\ last.env = EnvOf(last.thread)

\* C15 amended: the same, when GetEnv reports the thread as detached and
\* AttachCurrentThread succeeds; the handle's slot is then free.
C15_DetachedDropReleasesWhenAttachSucceeds ==
    (/\ DurableDrop
     /\ last.thread # Caller
     /\ ~last.attachedBefore
     /\ state[last.thread] = Detached
     /\ ~last.envFail
     /\ last.rtOk) =>
        /\ Count(last.calls, "DeleteGlobalRef") = 1
        /\ last.env = EnvOf(last.thread)
        /\ refs[last.src[1].obj].kind = "free"

C15_Witness ==
    /\ DurableDrop
    /\ last.thread # Caller
    /\ ~last.attachedBefore
    /\ state[last.thread] = Detached
    /\ last.calls = <<"GetEnv", "AttachCurrentThread", "DeleteGlobalRef">>

\* C16: after a durable reference is dropped on a thread that was not
\* attached to the runtime, the thread is again not attached.
C16_ReleaseAttachmentTransient ==
    (DurableDrop /\ ~last.attachedBefore) => ~jvmAttached[last.thread]

\* C17: the drop of a reference returns normally; when the environment
\* lookup or the attach call of a durable reference's drop fails, no
\* DeleteGlobalRef call is made and the runtime's slots are as they were.
C17_ReleaseNeverFails ==
    last.op = "drop" =>
        /\ last.kind = "Unit"
        /\ (/\ ~IsLocal(last.src[1])
            /\ last.envFail \/ (~last.attachedBefore /\ ~last.rtOk)) =>
               /\ Count(last.calls, "DeleteGlobalRef") = 0
               /\ refs[last.src[1].obj].kind = "global"

C17_Witness ==
    /\ DurableDrop
    /\ ~last.envFail
    /\ ~last.attachedBefore
    /\ ~last.rtOk
    /\ last.kind = "Unit"

\* C18: a duplication (Local::new, Jvm::local, Global::new, Jvm::global)
\* whose NewLocalRef / NewGlobalRef call returns null does not panic.
C18_NullDuplicateIsAnError ==
    (last.op \in {"local", "global"} /\ last.val = <<>>) =>
        last.kind # "Panic"

\* C19: when op fails with Thrown, Jvm::with returns Thrown carrying a
\* durable reference to the same exception object, and the NewGlobalRef call
\* that makes it comes before the guard is released.
C19_ThrownReturnedDurable ==
    (last.op = "with" /\ last.arg[1].kind = "Thrown") =>
        /\ last.kind = "Thrown"
        /\ last.val # <<>>
        /\ ~IsLocal(last.val[1].payload)
        /\ refs[last.val[1].payload.obj].obj = last.obj
        /\ Count(last.calls, "NewGlobalRef") = 1
        /\ Precedes(last.calls, "NewGlobalRef", "drop(guard)")

\* C20: into_global keeps the kind of every error: Thrown(scoped) becomes
\* Thrown(durable) of the same object, and the other kinds come back with
\* the payload they had and without a call into the runtime.
C20_IntoGlobalKeepsKind ==
    (last.op = "with" /\ last.arg[1].kind # "Ok") =>
        /\ last.val # <<>>
        /\ last.val[1].kind = last.arg[1].kind
        /\ last.arg[1].kind = "Thrown" =>
              /\ ~IsLocal(last.val[1].payload)
              /\ refs[last.val[1].payload.obj].obj = last.obj
        /\ last.arg[1].kind # "Thrown" =>
              /\ last.val[1] = last.arg[1]
              /\ last.mapCalls = <<>>

\* C21: a scoped reference duplicated from a durable reference, itself
\* duplicated from a scoped reference, refers to the runtime object the
\* original scoped reference referred to (whether or not the original is
\* still alive), for every object.
C21_DurableAndBackSameObject ==
    (last.op = "local" /\ ~IsLocal(last.src[1]) /\ last.val # <<>>) =>
        /\ IsLocal(last.val[1])
        /\ refs[last.val[1].obj].kind = "local"
        /\ refs[last.val[1].obj].obj = lineage[last.src[1].obj]
        /\ refs[last.val[1].obj].obj = refs[last.src[1].obj].obj

C21_Witness ==
    /\ last.op = "local"
    /\ ~IsLocal(last.src[1])
    /\ last.val # <<>>
    /\ Owners(last.val[1].obj) = 1
    /\ \A v \in BagToSet(held) : IsLocal(v) => v = last.val[1]

\* C24: the runtime is created at most once. Whatever the interleaving of
\* the threads' first Jvm::with calls, the initializer of GLOBAL_JVM is
\* started once and never again, two threads never run it together, and
\* every thread that gets a handle gets the handle of the one machine made.
C24_RuntimeCreatedOnce ==
    /\ jvmCell.cell.runs <= 1
    /\ (\E t \in Threads : jvmCell.seen[t] # NotRead) => jvmCell.cell.runs = 1
    /\ \A t \in Threads :
          jvmCell.seen[t].kind = "Ok" =>
              /\ jvmCell.cell.state = "Init"
              /\ jvmCell.seen[t].jvm = jvmCell.cell.vm
              /\ jvmCell.seen[t].jvm # NULL
    /\ \A t, u \in Threads :
          (jvmCell.seen[t].kind = "Ok" /\ jvmCell.seen[u].kind = "Ok") =>
              jvmCell.seen[t].jvm = jvmCell.seen[u].jvm
    /\ \A t \in Threads : scope[t] # <<>> => jvmCell.seen[t].kind = "Ok"

C24_Witness ==
    /\ \A t \in Threads : jvmCell.seen[t].kind = "Ok"
    /\ jvmCell.cell.by # Caller
    /\ scope[Caller] # <<>>

\* the global slots the runtime holds for object o
LiveGlobals(o) ==
    Cardinality({h \in GlobalHandles :
                    refs[h].kind = "global" /\ refs[h].obj = o})

\* the durable reference values that have not been dropped
Durables == [v \in {w \in BagToSet(held) : ~IsLocal(w)} |-> held[v]]

\* those whose handle the runtime resolves to object o
DurablesTo(o) ==
    BagCardinality([v \in {w \in BagToSet(Durables) :
                              /\ refs[w.obj].kind = "global"
                              /\ refs[w.obj].obj = o} |-> held[v]])

\* C22: when no runtime call has failed, every durable reference value that
\* has not been dropped is counted by the runtime, and for every object the
\* number of live global references the runtime holds to it equals the
\* number of undropped durable reference values to it (zero once the last
\* one is released, on any thread).
C22_GlobalCountMatchesValues ==
    /\ \A v \in BagToSet(Durables) : refs[v.obj].kind = "global"
    /\ \A o \in Objects : LiveGlobals(o) = DurablesTo(o)

Deletes(calls) == Count(calls, "DeleteLocalRef") + Count(calls, "DeleteGlobalRef")

\* C23: a handle is passed to DeleteLocalRef / DeleteGlobalRef at most once
\* and only by the drop of the value that owns it: no delete is made on a
\* handle that is not allocated, a drop makes at most one delete, no handle
\* has two owners, and no reference value holds a handle that was deleted.
C23_HandleDeletedOnce ==
    /\ last.op \in {"drop", "upcast", "with"} => ~last.stale
    /\ last.op = "drop" => Deletes(last.calls) <= 1
    /\ \A h \in Handles : Owners(h) <= 1
    /\ \A v \in BagToSet(held) :
          refs[v.obj].kind = IF IsLocal(v) THEN "local" ELSE "global"

\* C25: a handle wrapper made from the null address is None and one made
\* from a non-null address is Some of that address; no guard and no
\* reference holds a null handle.
C25_NoNullHandle ==
    /\ last.op = "new" =>
          /\ last.obj = NULL => last.val = <<>>
          /\ last.obj # NULL => last.val = <<last.obj>>
    /\ \A t \in Threads :
          /\ \A i \in 1..Len(guards[t]) : guards[t][i].env # NULL
          /\ \A i \in 1..Len(scope[t]) : scope[t][i].env # NULL
    /\ \A v \in BagToSet(held) :
          /\ v.obj # NULL
          /\ IsLocal(v) => v.env # NULL
          /\ ~IsLocal(v) => v.jvm # NULL

C25_Witness ==
    /\ last.op = "invoke"
    /\ last.val = <<>>
    /\ guards[last.thread] # <<>>
    /\ \E t \in Threads : t # last.thread /\ guards[t] # <<>>

\* C26: an absent object crosses the boundary as the null handle. An
\* argument None is passed as null and Some(r) as the handle of r (so that
\* equals(None) is false and equals(Some(r)) compares with r's object); a
\* returned null handle becomes None and a returned non-null handle becomes
\* Some of a scoped reference holding exactly that handle.
C26_AbsentIsNull ==
    /\ last.op = "equals" =>
          /\ last.arg = <<>> => last.obj = NULL /\ last.val = <<FALSE>>
          /\ last.arg # <<>> =>
                /\ last.obj = last.arg[1].obj
                /\ last.obj # NULL
                /\ last.val = <<refs[last.src[1].obj].obj
                                   = refs[last.arg[1].obj].obj>>
    /\ last.op = "invoke" =>
          /\ last.obj = NULL => last.val = <<>>
          /\ last.obj # NULL =>
                last.val = <<Local_from_raw(last.env, last.obj)>>

C26_Witness ==
    /\ last.op = "equals"
    /\ ~IsLocal(last.src[1])
    /\ last.arg = <<>>
    /\ last.val = <<FALSE>>

\* C27: a str made into a runtime string (to_java) and read back (to_rust)
\* comes back equal to the original, the empty str and strs with NUL or with
\* chars outside the basic multilingual plane included.
C27_StringRoundTrip ==
    last.op = "to_rust" =>
        /\ last.kind = "Ok"
        /\ last.val = last.src

C27_Witness ==
    /\ last.op = "to_rust"
    /\ last.val = last.src
    /\ Len(last.src[1]) = MaxLen
    /\ last.src[1][1] = 129408
    /\ last.src[1][MaxLen] = 0

C27_WitnessEmpty ==
    /\ last.op = "to_rust"
    /\ last.val = <<<<>>>>

\* C28: with no exception pending, check_exception returns Ok, makes the one
\* call ExceptionOccurred (no ExceptionClear), creates no reference and
\* leaves the signal unset.
C28_NoExceptionIsOk ==
    (last.op = "check_exception" /\ last.pendingBefore = NULL) =>
        /\ last.kind = "Ok"
        /\ last.calls = <<"ExceptionOccurred">>
        /\ last.ref = NoRef
        /\ pending[last.thread] = NULL

C28_Witness ==
    /\ last.op = "check_exception"
    /\ last.pendingBefore = NULL
    /\ ~last.prevThrown
    /\ last.kind = "Ok"

Lookups == {"find_class", "find_method", "into_java"}

\* C29: find_class, find_method and the creation of a string return Ok on a
\* non-null reply (with the handle replied), Thrown on a null reply with an
\* exception pending (wrapping that exception, the signal cleared) and
\* JvmInternal on a null reply with none pending; no null handle is wrapped
\* and no exception is left pending.
C29_LookupOutcomes ==
    last.op \in Lookups =>
        LET rt == last.arg[1]
            env == guards[last.thread][1].env IN
        /\ rt.ret # NULL =>
              /\ last.kind = "Ok"
              /\ last.op = "find_method" => last.obj = rt.ret
              /\ last.op # "find_method" =>
                    last.ref = Local_from_raw(env, rt.ret)
        /\ (rt.ret = NULL /\ rt.exc # NULL) =>
              /\ last.kind = "Thrown"
              /\ last.ref = Local_from_raw(env, rt.exc)
              /\ Count(last.calls, "ExceptionClear") = 1
        /\ (rt.ret = NULL /\ rt.exc = NULL) =>
              /\ last.kind = "JvmInternal"
              /\ last.ref = NoRef
        /\ last.kind = "Ok" => (last.ref.obj # NULL \/ last.obj # NULL)
        /\ last.kind = "Thrown" => last.ref.obj # NULL
        /\ pending[last.thread] = NULL

C29_Witness ==
    /\ last.op = "find_method"
    /\ last.arg[1].ret = NULL
    /\ last.arg[1].exc # NULL
    /\ last.kind = "Thrown"
    /\ pending[last.thread] = NULL

\* C30: on every thread the state is InUse exactly when one AttachGuard is
\* live, no thread has two live guards, and with no guard live the state is
\* Detached or Attached, also after a failed attach or detach call.
C30_InUseIffOneGuard ==
    \A t \in Threads :
        /\ Len(guards[t]) <= 1
        /\ state[t] = InUse <=> Len(guards[t]) = 1
        /\ guards[t] = <<>> => state[t].tag \in {"Detached", "Attached"}

\* C31: the assertion in the release of a permanent guard always holds:
\* whenever a guard with permanent = true is dropped, the thread-local state
\* it replaces is InUse, whatever attaches, failed nested attaches and guard
\* releases came before.
C31_PermanentDropReplacesInUse ==
    (last.op = "drop_guard" /\ last.guard[1].permanent) =>
        /\ last.pre = InUse
        /\ AttachGuard_drop(last.pre, last.guard[1], last.rtOk).assertOk
        /\ state[last.thread] = Attached(last.guard[1].env)

\* a permanent guard is dropped on a thread where a nested attach has failed
C31_Witness ==
    /\ last.op = "drop_guard"
    /\ last.guard[1].permanent
    /\ nested[last.thread]
    /\ last.pre = InUse
    /\ state[last.thread].tag = "Attached"

\* C32 as stated: dropping a durable reference neither reads nor changes the
\* thread-local attachment state: the state and the guards of every thread
\* are as they were, the drop does not fail with NestedUsage, and a drop on
\* a thread whose guard is live (state InUse) deletes the global handle
\* through the environment of that guard.
C32_DropLeavesThreadState ==
    [][(last'.op = "drop" /\ ~IsLocal(last'.src[1])) =>
          LET t == last'.thread IN
          /\ state' = state
          /\ guards' = guards
          /\ last'.kind = "Unit"
          /\ (state[t] = InUse /\ guards[t] # <<>>) =>
                /\ Count(last'.calls, "DeleteGlobalRef") = 1
                /\ last'.env = guards[t][1].env
                /\ refs'[last'.src[1].obj].kind = "free"
                /\ state'[t] = InUse]_vars

\* C32 amended: the same, the handle being deleted when GetEnv replies
\* JNI_OK; when it replies an error code no delete call is made and the
\* handle stays allocated, the state still unchanged.
C32_DropLeavesThreadStateWhenEnvFound ==
    [][(last'.op = "drop" /\ ~IsLocal(last'.src[1])) =>
          LET t == last'.thread IN
          /\ state' = state
          /\ guards' = guards
          /\ last'.kind = "Unit"
          /\ (state[t] = InUse /\ guards[t] # <<>> /\ ~last'.envFail) =>
                /\ last'.calls = <<"GetEnv", "DeleteGlobalRef">>
                /\ last'.env = guards[t][1].env
                /\ refs'[last'.src[1].obj].kind = "free"
                /\ state'[t] = InUse
          /\ (state[t] = InUse /\ guards[t] # <<>> /\ last'.envFail) =>
                /\ last'.calls = <<"GetEnv">>
                /\ refs' = refs
                /\ state'[t] = InUse]_vars

\* a durable reference has just been dropped on a thread whose guard is
\* live: the handle is deleted through the guard's environment
C32_Witness ==
    /\ DurableDrop
    /\ state[last.thread] = InUse
    /\ guards[last.thread] # <<>>
    /\ ~last.envFail
    /\ last.calls = <<"GetEnv", "DeleteGlobalRef">>
    /\ last.env = guards[last.thread][1].env
    /\ refs[last.src[1].obj].kind = "free"

\* the environment handles thread t's attachment holds: the one stored in
\* its state and those of its live guards
EnvsOf(t) ==
    (IF state[t].tag = "Attached" THEN {state[t].env} ELSE {})
        \cup {guards[t][i].env : i \in 1..Len(guards[t])}

\* C33: attachment state is per thread: an attach, a failed attach or a
\* guard release on one thread leaves the state, the guards and the runtime
\* attachment of every other thread unchanged, and the environment handle
\* in one thread's state or guard is that thread's own, never one that
\* another thread's state or guard holds, under every interleaving.
C33_AttachmentStatePerThread ==
    /\ [](\A t \in Threads :
            /\ EnvsOf(t) \subseteq {EnvOf(t)}
            /\ \A u \in Threads \ {t} : EnvsOf(t) \cap EnvsOf(u) = {})
    /\ [][last'.op \in AttachOps \cup {"drop_guard"} =>
            \A u \in Threads \ {last'.thread} :
                /\ state'[u] = state[u]
                /\ guards'[u] = guards[u]
                /\ jvmAttached'[u] = jvmAttached[u]]_vars

\* an attach has just failed with NestedUsage on a thread that holds a
\* guard, while another thread's state stores that thread's own environment
C33_Witness ==
    /\ last.op \in AttachOps
    /\ last.kind = "NestedUsage"
    /\ \E u \in Threads \ {last.thread} :
          /\ state[u] = Attached(EnvOf(u))
          /\ guards[last.thread] # <<>>
          /\ guards[last.thread][1].env = EnvOf(last.thread)

====
